---- MODULE Spec2Model ----
(***************************************************************************)
(* A model of the crawl4AI-agent ingestion orchestrator                    *)
(* (crawl_event_links.py) and of the retrieval tools of the conference     *)
(* expert (chi_conference_expert.py).                                      *)
(*                                                                         *)
(* Text is modelled as a sequence of one-character strings, so that        *)
(* formatting, splitting and joining are computed as the code computes     *)
(* them.                                                                   *)
(***************************************************************************)
EXTENDS Integers, Sequences, FiniteSets, TLC

\* ------------------------------------------------------------------ bounds
MaxUrls == 3

MaxConcurrent == 2

MaxRows == 2

MaxChunk == 1

\* ------------------------------------------------------- program constants
EmbeddingDim == 1536

MatchCount == 100

VARIABLES
    \* crawl_event_links
    n,              \* len(urls); the URLs of the batch are 1..n, in list order
    max_concurrent, \* the max_concurrent argument
    hangs,          \* per URL: whether its crawler.arun call never returns
    orch,           \* position of the crawl_event_links coroutine
    crawler,        \* "open" after crawler.start(), "closed" after crawler.close()
    exc,            \* gather delivered a task's exception to crawl_event_links
    ret,            \* what crawl_event_links hands back to its caller
    pc,             \* per URL: position of its process_url task
    fetchResult,    \* per URL: outcome of crawler.arun
    processed,      \* per URL: process_and_store_document was called
    sem_value,      \* asyncio.Semaphore._value
    waiters,        \* asyncio.Semaphore._waiters (FIFO of task ids)
    \* retrieval tools
    store,          \* the site_pages table, rows in physical (write) order
    searching,      \* a search call is suspended in `await get_embedding`
    call            \* what a tool call returned in the latest step, if any

crawlVars == <<n, max_concurrent, hangs, orch, crawler, exc, ret, pc,
               fetchResult, processed, sem_value, waiters>>

toolVars == <<store, searching, call>>

vars == <<n, max_concurrent, hangs, orch, crawler, exc, ret, pc,
          fetchResult, processed, sem_value, waiters, store, searching, call>>

\* ================================================================ crawling

URLs == 1..n

HangKinds == {"none", "fetch"}

\* Return values of crawl_event_links as its caller sees them.
Pending == [kind |-> "pending"]

NoneValue == [kind |-> "None"]

ExceptionValue == [kind |-> "exception"]

Tally(s, f) == [kind |-> "tally", succeeded |-> s, failed |-> f]

Idle == [op |-> "none"]

\* The process_url tasks stay scheduled on the event loop, also after
\* crawl_event_links has exited, until asyncio.run cancels what is pending.
Running == orch # "shutdown"

AllStarted == \A u \in URLs : pc[u] # "created"

Finished(u) == pc[u] \in {"done", "raised", "cancelled"}

\* A semaphore that acquire() never finds locked.
locked_nocheck == FALSE

\* Semaphore.locked(): the counter is zero, or some waiter is not cancelled.
locked == sem_value = 0 \/ Len(waiters) > 0

\* Position in _waiters of the first waiter whose future is not done, or 0.
\* Once asyncio.run has cancelled the tasks, the future of every waiter is
\* done: cancelled, or set by an earlier release.
FirstPending(ws, p) ==
    LET idx == {i \in 1..Len(ws) : p[ws[i]] = "waiting" /\ orch # "shutdown"}
    IN  IF idx = {} THEN 0 ELSE CHOOSE i \in idx : \A j \in idx : i <= j

\* Semaphore._wake_up_next applied to counter v, waiters ws and task
\* positions p: the first pending waiter takes one unit and is made ready.
WakeUpNext(v, ws, p) ==
    LET i == FirstPending(ws, p)
    IN  IF i = 0
        THEN [value |-> v, pc |-> p]
        ELSE [value |-> v - 1, pc |-> [p EXCEPT ![ws[i]] = "woken"]]

\* Semaphore.release(): increment, then wake the next waiter.
release(v, ws, p) == WakeUpNext(v + 1, ws, p)

RemoveFrom(ws, u) ==
    LET idx == {i \in 1..Len(ws) : ws[i] = u}
    IN  IF idx = {} THEN ws
        ELSE LET i == CHOOSE j \in idx : TRUE
             IN  SubSeq(ws, 1, i - 1) \o SubSeq(ws, i + 1, Len(ws))

CrawlInit ==
    /\ n \in 0..MaxUrls
    /\ max_concurrent \in 1..MaxConcurrent
    /\ hangs \in [1..n -> HangKinds]
    /\ orch = "gathering"
    /\ crawler = "open"
    /\ exc = FALSE
    /\ ret = Pending
    /\ pc = [u \in 1..n |-> "created"]
    /\ fetchResult = [u \in 1..n |-> "pending"]
    /\ processed = [u \in 1..n |-> FALSE]
    /\ sem_value = max_concurrent
    /\ waiters = <<>>

\* First step of process_url(u): `async with semaphore` calls acquire().
\* Tasks are first run in the order gather created them.
TaskStart(u) ==
    /\ Running
    /\ pc[u] = "created"
    /\ \A v \in URLs : v < u => pc[v] # "created"
    /\ IF ~locked
       THEN /\ sem_value' = sem_value - 1
            /\ pc' = [pc EXCEPT ![u] = "fetching"]
            /\ UNCHANGED waiters
       ELSE /\ waiters' = Append(waiters, u)
            /\ pc' = [pc EXCEPT ![u] = "waiting"]
            /\ UNCHANGED sem_value
    /\ UNCHANGED <<n, max_concurrent, hangs, orch, crawler, exc, ret,
                   fetchResult, processed, toolVars>>

\* A woken waiter resumes in acquire(): it leaves _waiters, passes a spare
\* unit on, and enters the body of the `async with`, calling crawler.arun.
Resume(u) ==
    /\ Running
    /\ pc[u] = "woken"
    /\ LET ws == RemoveFrom(waiters, u)
           w  == IF sem_value > 0
                 THEN WakeUpNext(sem_value, ws, pc)
                 ELSE [value |-> sem_value, pc |-> pc]
       IN  /\ waiters' = ws
           /\ sem_value' = w.value
           /\ pc' = [w.pc EXCEPT ![u] = "fetching"]
    /\ UNCHANGED <<n, max_concurrent, hangs, orch, crawler, exc, ret,
                   fetchResult, processed, toolVars>>

\* crawler.arun returns a result with success = True: the page is handed to
\* process_and_store_document, which prints and returns without suspending;
\* the `async with` exits and releases the semaphore, and the task ends.
FetchOk(u) ==
    /\ Running
    /\ pc[u] = "fetching"
    /\ hangs[u] # "fetch"
    /\ fetchResult' = [fetchResult EXCEPT ![u] = "ok"]
    /\ processed' = [processed EXCEPT ![u] = TRUE]
    /\ LET r == release(sem_value, waiters, pc)
       IN  /\ sem_value' = r.value
           /\ pc' = [r.pc EXCEPT ![u] = "done"]
    /\ UNCHANGED <<n, max_concurrent, hangs, orch, crawler, exc, ret,
                   waiters, toolVars>>

\* crawler.arun returns a result with success = False: the failure is
\* printed, the `async with` exits and releases the semaphore.
FetchFail(u) ==
    /\ Running
    /\ pc[u] = "fetching"
    /\ hangs[u] # "fetch"
    /\ fetchResult' = [fetchResult EXCEPT ![u] = "fail"]
    /\ LET r == release(sem_value, waiters, pc)
       IN  /\ sem_value' = r.value
           /\ pc' = [r.pc EXCEPT ![u] = "done"]
    /\ UNCHANGED <<n, max_concurrent, hangs, orch, crawler, exc, ret,
                   processed, waiters, toolVars>>

\* crawler.arun raises: the exception leaves the `async with` (which
\* releases the semaphore) and ends the task with that exception.
FetchRaise(u) ==
    /\ Running
    /\ pc[u] = "fetching"
    /\ hangs[u] # "fetch"
    /\ fetchResult' = [fetchResult EXCEPT ![u] = "raise"]
    /\ LET r == release(sem_value, waiters, pc)
       IN  /\ sem_value' = r.value
           /\ pc' = [r.pc EXCEPT ![u] = "raised"]
    /\ UNCHANGED <<n, max_concurrent, hangs, orch, crawler, exc, ret,
                   processed, waiters, toolVars>>

\* asyncio.gather (return_exceptions left False) completes normally once
\* every task has returned.
GatherReturn ==
    /\ orch = "gathering"
    /\ \A u \in URLs : pc[u] = "done"
    /\ orch' = "closing"
    /\ UNCHANGED <<n, max_concurrent, hangs, crawler, exc, ret, pc,
                   fetchResult, processed, sem_value, waiters, toolVars>>

\* asyncio.gather hands the first task exception to the awaiting
\* crawl_event_links at once; the other tasks are not cancelled and not
\* awaited.  Control enters the `finally`.
GatherRaise ==
    /\ orch = "gathering"
    /\ AllStarted
    /\ \E u \in URLs : pc[u] = "raised"
    /\ orch' = "closing"
    /\ exc' = TRUE
    /\ UNCHANGED <<n, max_concurrent, hangs, crawler, ret, pc,
                   fetchResult, processed, sem_value, waiters, toolVars>>

\* finally: await crawler.close(); then the function returns None, or the
\* pending exception propagates to the caller.
CrawlerClose ==
    /\ orch = "closing"
    /\ crawler' = "closed"
    /\ orch' = IF exc THEN "raised" ELSE "returned"
    /\ ret' = IF exc THEN ExceptionValue ELSE NoneValue
    /\ UNCHANGED <<n, max_concurrent, hangs, exc, pc,
                   fetchResult, processed, sem_value, waiters, toolVars>>

\* The exception leaves main(); asyncio.run calls cancel() on every task
\* still pending, which cancels the future the task is suspended on, and
\* then runs the loop until those tasks have ended.
RunnerCancel ==
    /\ orch = "raised"
    /\ \E u \in URLs : ~Finished(u)
    /\ orch' = "shutdown"
    /\ UNCHANGED <<n, max_concurrent, hangs, crawler, exc, ret, pc,
                   fetchResult, processed, sem_value, waiters, toolVars>>

\* A cancelled task is resumed with CancelledError.  In acquire() it leaves
\* _waiters, and gives back the unit a release had already handed to it; in
\* crawler.arun the error leaves the `async with`, which releases.
TaskCancelled(u) ==
    /\ orch = "shutdown"
    /\ pc[u] \in {"waiting", "woken", "fetching"}
    /\ LET ws == IF pc[u] = "fetching" THEN waiters ELSE RemoveFrom(waiters, u)
           r  == IF pc[u] = "waiting"
                 THEN [value |-> sem_value, pc |-> pc]
                 ELSE release(sem_value, ws, pc)
       IN  /\ waiters' = ws
           /\ sem_value' = r.value
           /\ pc' = [r.pc EXCEPT ![u] = "cancelled"]
    /\ UNCHANGED <<n, max_concurrent, hangs, orch, crawler, exc, ret,
                   fetchResult, processed, toolVars>>

TaskStep(u) ==
    \/ TaskStart(u)
    \/ Resume(u)
    \/ FetchOk(u)
    \/ FetchFail(u)
    \/ FetchRaise(u)
    \/ TaskCancelled(u)

Init ==
    /\ CrawlInit
    /\ store = <<>>
    /\ searching = FALSE
    /\ call = Idle

Next ==
    \/ \E u \in 1..MaxUrls : u \in URLs /\ TaskStart(u)
    \/ \E u \in 1..MaxUrls : u \in URLs /\ Resume(u)
    \/ \E u \in 1..MaxUrls : u \in URLs /\ FetchOk(u)
    \/ \E u \in 1..MaxUrls : u \in URLs /\ FetchFail(u)
    \/ \E u \in 1..MaxUrls : u \in URLs /\ FetchRaise(u)
    \/ \E u \in 1..MaxUrls : u \in URLs /\ TaskCancelled(u)
    \/ GatherReturn
    \/ GatherRaise
    \/ CrawlerClose
    \/ RunnerCancel

Spec == Init /\ [][Next]_vars

\* The event loop runs every ready task, and an external call that is not
\* hung eventually returns.
Fairness ==
    /\ \A u \in 1..MaxUrls : WF_vars(u \in URLs /\ TaskStep(u))
    /\ WF_vars(GatherReturn)
    /\ WF_vars(GatherRaise)
    /\ WF_vars(CrawlerClose)
    /\ WF_vars(RunnerCancel)

FairSpec == Spec /\ Fairness

\* ------------------------------------------------- claims on crawl_event_links

Fetching == {u \in URLs : pc[u] = "fetching"}

\* The tasks inside the `async with semaphore` block, or woken with a unit
\* of the semaphore already taken on their behalf.
SlotHolders == {u \in URLs : pc[u] \in {"woken", "fetching"}}

Succeeded == {u \in URLs : fetchResult[u] = "ok"}

Failed == {u \in URLs : fetchResult[u] \in {"fail", "raise"}}

\* C1: in every reachable state at most max_concurrent page fetches are in
\* flight, and every task that fetches holds a unit of the
\* semaphore: the counter is never negative and equals max_concurrent minus
\* the number of slot holders.  A fetch starts only in a step that takes a
\* free unit, or in a task to which a release handed its unit: with all
\* units taken, no fetch starts until one is released.
C1_BoundedFetches ==
    /\ [](/\ Cardinality(Fetching) <= max_concurrent
          /\ sem_value >= 0
          /\ sem_value + Cardinality(SlotHolders) = max_concurrent)
    /\ [][\A u \in URLs :
              (pc[u] # "fetching" /\ pc'[u] = "fetching") =>
                  \/ sem_value > 0 /\ sem_value' = sem_value - 1
                  \/ pc[u] = "woken"]_vars

\* All units are taken by fetches in flight and a further URL is kept waiting.
C1_Witness ==
    /\ Cardinality(Fetching) = max_concurrent
    /\ \E u \in URLs : pc[u] = "waiting"

\* C2: a failed fetch of u (success = False, or the rendering call raising)
\* is confined to u: u is not processed, its slot is released once its task
\* has ended, no other task is cut short, and crawl_event_links does not
\* raise.
C2_FailureConfined ==
    \A u \in URLs :
        fetchResult[u] \in {"fail", "raise"} =>
            /\ ~processed[u]
            /\ u \notin SlotHolders
            /\ ret # ExceptionValue
            /\ \A v \in URLs : pc[v] # "cancelled"

\* C3: the crawler is closed, and crawl_event_links returns or exits, only
\* after every process_url task of the batch has finished by itself: no
\* task is still waiting or fetching then, and none is cut short afterwards.
C3_CloseAfterAllTasks ==
    crawler = "closed" => \A u \in URLs : pc[u] \in {"done", "raised"}

\* C4: on completion of a run over a non-empty URL list the orchestrator hands
\* back a tally whose succeeded and failed counts are the numbers of URLs
\* whose fetch succeeded and failed.
C4_AggregateTally ==
    (n > 0 /\ orch = "returned") =>
        ret = Tally(Cardinality(Succeeded), Cardinality(Failed))

\* C10: under fair scheduling, every URL whose own fetch does not hang is
\* eventually fetched and, if its fetch succeeded, processed to the end,
\* whatever fetches of other URLs never return.  (A run that a raising call
\* aborted is excused here, so a violation is due to hanging calls alone.)
C10_HungCallBlocksOnlyItself ==
    \A u \in 1..MaxUrls :
        (u \in URLs /\ hangs[u] = "none")
            ~> (\/ u \notin URLs
                \/ orch \in {"raised", "shutdown"}
                \/ pc[u] = "done")

\* =============================================================== retrieval

\* The dataset tag every query of the tools filters on.
DATASET == "sigchi__conference_events"

\* URLs of stored pages.  As Python strings "u10" < "u2".
PageURLs == {<<"u", "2">>, <<"u", "1", "0">>}

\* (title, content) pairs a stored chunk of the dataset may carry.
Docs ==
    { [title |-> <<"a", " ", "-", " ", "b">>, content |-> <<"x">>],
      [title |-> <<"b">>, content |-> <<"y">>] }

\* What a chunk of another dataset carries.
OtherDoc == [title |-> <<"o">>, content |-> <<"z">>]

\* str(e) of the exception a failed store call raises.
ErrMsgs == {<<"5", "0", "3">>}

\* A row of site_pages.
Row(u, k, src, d) ==
    [url |-> u, chunk_number |-> k, source |-> src,
     title |-> d.title, content |-> d.content]

RowValues ==
    {Row(u, k, DATASET, d) : u \in PageURLs, k \in 0..MaxChunk, d \in Docs}
    \cup {Row(u, k, "other", OtherDoc) : u \in PageURLs, k \in 0..MaxChunk}

\* retrieve_relevant_documentation: the text returned when the search has no rows
NoResultsText ==
    <<"N", "o", " ", "r", "e", "l", "e", "v", "a", "n", "t", " ", "d", "o",
      "c", "u", "m", "e", "n", "t", "a", "t", "i", "o", "n", " ", "f", "o",
      "u", "n", "d", ".">>

\* get_page_content: the text returned when the page has no rows, before the url
NoContentPrefix ==
    <<"N", "o", " ", "c", "o", "n", "t", "e", "n", "t", " ", "f", "o", "u",
      "n", "d", " ", "f", "o", "r", " ", "U", "R", "L", ":", " ">>

\* retrieve_relevant_documentation: the text returned from the except clause, before str(e)
ErrDocPrefix ==
    <<"E", "r", "r", "o", "r", " ", "r", "e", "t", "r", "i", "e", "v", "i",
      "n", "g", " ", "d", "o", "c", "u", "m", "e", "n", "t", "a", "t", "i",
      "o", "n", ":", " ">>

\* get_page_content: the text returned from the except clause, before str(e)
ErrPagePrefix ==
    <<"E", "r", "r", "o", "r", " ", "r", "e", "t", "r", "i", "e", "v", "i",
      "n", "g", " ", "p", "a", "g", "e", " ", "c", "o", "n", "t", "e", "n",
      "t", ":", " ">>

\* the separator between formatted search results
ChunkSeparator ==
    <<"\n", "\n", "-", "-", "-", "\n", "\n">>

\* ------------------------------------------------------------ text helpers

RECURSIVE Join(_, _)
\* sep.join(parts)
Join(sep, parts) ==
    IF parts = <<>> THEN <<>>
    ELSE IF Len(parts) = 1 THEN parts[1]
    ELSE parts[1] \o sep \o Join(sep, Tail(parts))

StartsWith(t, p) == Len(t) >= Len(p) /\ SubSeq(t, 1, Len(p)) = p

RECURSIVE Split(_, _)
\* t.split(sep) for a non-empty sep: the parts of t between occurrences of
\* sep, scanned left to right.
Split(t, sep) ==
    LET hits == {i \in 1..(Len(t) - Len(sep) + 1) :
                    SubSeq(t, i, i + Len(sep) - 1) = sep}
    IN  IF hits = {} THEN <<t>>
        ELSE LET i == CHOOSE h \in hits : \A g \in hits : h <= g
             IN  <<SubSeq(t, 1, i - 1)>>
                 \o Split(SubSeq(t, i + Len(sep), Len(t)), sep)

\* Unicode code points of the characters URLs are made of.
CodePoint(c) ==
    CASE c = "0" -> 48 [] c = "1" -> 49 [] c = "2" -> 50 [] c = "u" -> 117

RECURSIVE StrLess(_, _)
\* Python's a < b on strings: code point order, a proper prefix first.
StrLess(a, b) ==
    IF b = <<>> THEN FALSE
    ELSE IF a = <<>> THEN TRUE
    ELSE IF Head(a) = Head(b) THEN StrLess(Tail(a), Tail(b))
    ELSE CodePoint(Head(a)) < CodePoint(Head(b))

RECURSIVE Sorted(_)
\* sorted(S) for a set of strings.
Sorted(S) ==
    IF S = {} THEN <<>>
    ELSE LET m == CHOOSE x \in S : \A y \in S : y = x \/ StrLess(x, y)
         IN  <<m>> \o Sorted(S \ {m})

Range(seq) == {seq[i] : i \in 1..Len(seq)}

Take(seq, k) == SubSeq(seq, 1, IF Len(seq) < k THEN Len(seq) ELSE k)

\* ---------------------------------------------------------- the chunk store

RECURSIVE Filter(_, _, _)
\* The rows of st, in physical order, from position i on, that have the
\* given source tag.
Filter(st, i, src) ==
    IF i > Len(st) THEN <<>>
    ELSE (IF st[i].source = src THEN <<st[i]>> ELSE <<>>)
         \o Filter(st, i + 1, src)

RECURSIVE FilterUrl(_, _, _)
FilterUrl(rows, i, u) ==
    IF i > Len(rows) THEN <<>>
    ELSE (IF rows[i].url = u THEN <<rows[i]>> ELSE <<>>)
         \o FilterUrl(rows, i + 1, u)

RECURSIVE InsertOrdered(_, _)
InsertOrdered(sorted, r) ==
    IF sorted = <<>> THEN <<r>>
    ELSE IF r.chunk_number < Head(sorted).chunk_number
         THEN <<r>> \o sorted
         ELSE <<Head(sorted)>> \o InsertOrdered(Tail(sorted), r)

RECURSIVE OrderByChunkNumber(_)
\* .order('chunk_number'): the rows in ascending chunk_number.
OrderByChunkNumber(rows) ==
    IF rows = <<>> THEN <<>>
    ELSE InsertOrdered(OrderByChunkNumber(SubSeq(rows, 1, Len(rows) - 1)),
                       rows[Len(rows)])

\* The query of get_page_content with its dataset filter left out.
SelectPage_nofilter(st, u) == OrderByChunkNumber(FilterUrl(st, 1, u))

\* The query of get_page_content with its ordering left out.
SelectPage_unordered(st, u) == FilterUrl(Filter(st, 1, DATASET), 1, u)

\* from_('site_pages').select('title, content, chunk_number').eq('url', url)
\*   .eq('metadata->>source', DATASET).order('chunk_number')
SelectPage(st, u) ==
    OrderByChunkNumber(FilterUrl(Filter(st, 1, DATASET), 1, u))

\* The query of list_conferences with its dataset filter left out.
SelectUrls_nofilter(st) == [i \in 1..Len(st) |-> st[i].url]

\* from_('site_pages').select('url').eq('metadata->>source', DATASET)
SelectUrls(st) ==
    LET rows == Filter(st, 1, DATASET)
    IN  [i \in 1..Len(rows) |-> rows[i].url]

\* rpc('match_site_pages', {query_embedding, match_count, filter}): the
\* candidates are restricted by the filter's source tag before ranking, and
\* at most match_count rows come back.  The ranking itself is opaque; rows
\* come back in one fixed order.
MatchSitePages(st, query_embedding, match_count, src) ==
    Take(Filter(st, 1, src), match_count)

\* Chunk Store upsert keyed by (url, chunk_number): last writer wins.
Upsert(st, r) ==
    LET hit == {i \in 1..Len(st) :
                   st[i].url = r.url /\ st[i].chunk_number = r.chunk_number}
    IN  IF hit = {} THEN Append(st, r)
        ELSE [i \in 1..Len(st) |-> IF i \in hit THEN r ELSE st[i]]

\* ------------------------------------------------------------ the tools

\* How a Python call ends: with a value, or with an exception.
Return(v) == [raised |-> FALSE, value |-> v]

Raise(msg) == [raised |-> TRUE, value |-> msg]

ZeroVector == [i \in 1..EmbeddingDim |-> 0]

\* Vectors the embedding service may answer with.
ServiceVectors ==
    << [i \in 1..EmbeddingDim |-> 1],
       [i \in 1..EmbeddingDim |-> IF i % 2 = 0 THEN 0 - 3 ELSE 2] >>

ServiceVector(k) == ServiceVectors[k]

\* get_embedding with the except clause letting the error through.
get_embedding_reraise(embOK, k) ==
    IF embOK THEN Return(ServiceVector(k)) ELSE Raise(<<"e">>)

\* get_embedding: the service's vector, or the zero vector when the
\* embeddings call raised.
get_embedding(embOK, k) ==
    IF embOK THEN Return(ServiceVector(k)) ELSE Return(ZeroVector)

\* One search result as retrieve_relevant_documentation formats it.
FormatChunk(doc) ==
    <<"\n", "#", " ">> \o doc.title \o <<"\n", "\n">> \o doc.content
    \o <<"\n">>

\* The try block of retrieve_relevant_documentation.
retrieve_try(st, embOK, k, rpcOK, msg) ==
    LET emb == get_embedding(embOK, k)
    IN  IF emb.raised
        THEN [raised |-> TRUE, value |-> emb.value, searched |-> FALSE,
              query_embedding |-> <<>>, nrows |-> 0]
        ELSE IF ~rpcOK
        THEN [raised |-> TRUE, value |-> msg, searched |-> TRUE,
              query_embedding |-> emb.value, nrows |-> 0]
        ELSE LET data == MatchSitePages(st, emb.value, MatchCount, DATASET)
                 formatted_chunks ==
                     [i \in 1..Len(data) |-> FormatChunk(data[i])]
             IN  [raised |-> FALSE,
                  value |-> IF data = <<>> THEN NoResultsText
                            ELSE Join(ChunkSeparator, formatted_chunks),
                  searched |-> TRUE, query_embedding |-> emb.value,
                  nrows |-> Len(data)]

\* retrieve_relevant_documentation without its except clause.
retrieve_relevant_documentation_nocatch(st, embOK, k, rpcOK, msg) ==
    retrieve_try(st, embOK, k, rpcOK, msg)

\* retrieve_relevant_documentation(ctx, user_query)
retrieve_relevant_documentation(st, embOK, k, rpcOK, msg) ==
    LET r == retrieve_try(st, embOK, k, rpcOK, msg)
    IN  IF r.raised
        THEN [r EXCEPT !.raised = FALSE, !.value = ErrDocPrefix \o r.value]
        ELSE r

\* The try block of list_conferences.
list_try(st, storeOK, msg) ==
    IF ~storeOK THEN Raise(msg)
    ELSE LET data == SelectUrls(st)
         IN  IF data = <<>> THEN Return(<<>>)
             ELSE Return(Sorted(Range(data)))

\* list_conferences(ctx)
list_conferences(st, storeOK, msg) ==
    LET r == list_try(st, storeOK, msg)
    IN  IF r.raised THEN Return(<<>>) ELSE r

\* The try block of get_page_content.
page_try(st, u, storeOK, msg) ==
    IF ~storeOK THEN Raise(msg)
    ELSE LET data == SelectPage(st, u)
         IN  IF data = <<>> THEN Return(NoContentPrefix \o u)
             ELSE LET page_title == Split(data[1].title, <<" ", "-", " ">>)[1]
                      formatted_content ==
                          <<(<<"#", " ">> \o page_title \o <<"\n">>)>>
                          \o [i \in 1..Len(data) |-> data[i].content]
                  IN  Return(Join(<<"\n", "\n">>, formatted_content))

\* get_page_content(ctx, url)
get_page_content(st, u, storeOK, msg) ==
    LET r == page_try(st, u, storeOK, msg)
    IN  IF r.raised THEN Return(ErrPagePrefix \o r.value) ELSE r

\* ---------------------------------------------------------------- actions

\* A chunk is written to the store, at any moment.
WriteChunk ==
    \E r \in RowValues :
        /\ Len(Upsert(store, r)) <= MaxRows
        /\ Upsert(store, r) # store
        /\ store' = Upsert(store, r)
        /\ call' = Idle
        /\ UNCHANGED <<searching, crawlVars>>

\* retrieve_relevant_documentation is called and suspends in
\* `await get_embedding(...)`, before the store is queried.  The model
\* follows one search call at a time; writes and the other tools run
\* while it is suspended.
RetrieveAwaitEmbedding ==
    /\ ~searching
    /\ searching' = TRUE
    /\ call' = Idle
    /\ UNCHANGED <<store, crawlVars>>

\* The embeddings call completes (with vector k, or by raising) and the
\* search call runs to its end: it queries the store as it is now, formats
\* the rows and returns.
RetrieveResume ==
    \E embOK \in BOOLEAN, k \in 1..2, rpcOK \in BOOLEAN, msg \in ErrMsgs :
        /\ searching
        /\ embOK \/ k = 1
        /\ searching' = FALSE
        /\ LET r == retrieve_relevant_documentation(store, embOK, k, rpcOK, msg)
           IN  call' = [op |-> "retrieve", embOK |-> embOK, svc |-> k,
                        storeOK |-> rpcOK, raised |-> r.raised,
                        value |-> r.value, searched |-> r.searched,
                        query_embedding |-> r.query_embedding,
                        nrows |-> r.nrows]
        /\ UNCHANGED <<store, crawlVars>>

\* list_conferences is called; it has no `await` and returns in one step.
CallList ==
    \E storeOK \in BOOLEAN, msg \in ErrMsgs :
        /\ LET r == list_conferences(store, storeOK, msg)
           IN  call' = [op |-> "list", storeOK |-> storeOK,
                        raised |-> r.raised, value |-> r.value]
        /\ UNCHANGED <<store, searching, crawlVars>>

\* get_page_content is called; it has no `await` and returns in one step.
CallGetPage ==
    \E u \in PageURLs, storeOK \in BOOLEAN, msg \in ErrMsgs :
        /\ LET r == get_page_content(store, u, storeOK, msg)
           IN  call' = [op |-> "get_page", url |-> u, storeOK |-> storeOK,
                        raised |-> r.raised, value |-> r.value]
        /\ UNCHANGED <<store, searching, crawlVars>>

\* No crawl is running while the tools are used.
RetrievalInit ==
    /\ n = 0
    /\ max_concurrent = 1
    /\ hangs = <<>>
    /\ orch = "idle"
    /\ crawler = "none"
    /\ exc = FALSE
    /\ ret = Pending
    /\ pc = <<>>
    /\ fetchResult = <<>>
    /\ processed = <<>>
    /\ sem_value = 1
    /\ waiters = <<>>
    /\ store = <<>>
    /\ searching = FALSE
    /\ call = Idle

RetrievalNext ==
    \/ WriteChunk
    \/ CallGetPage
    \/ CallList
    \/ RetrieveAwaitEmbedding
    \/ RetrieveResume

RetrievalSpec == RetrievalInit /\ [][RetrievalNext]_vars

\* -------------------------------------------- claims on the retrieval tools

\* The latest step was the return of tool op: `store` is what its query read.
Completed(op) == call # Idle /\ call.op = op

\* The store holds a chunk of url u in the dataset.
HasChunk(st, u) ==
    \E i \in 1..Len(st) : st[i].url = u /\ st[i].source = DATASET

HasDatasetRow(st) == \E i \in 1..Len(st) : st[i].source = DATASET

NotFound(u) == NoContentPrefix \o u

IsErrorText(v, prefix) == \E m \in ErrMsgs : v = prefix \o m

\* C5 as stated: every tool call returns normally, and what the search and
\* get-page tools return is a formatted result, the "no results" sentinel or
\* the "not found" sentinel, and nothing else.
C5_ThreeKindsOnly ==
    /\ call # Idle => ~call.raised
    /\ Completed("retrieve") =>
           \/ call.value = NoResultsText
           \/ StartsWith(call.value, <<"\n", "#", " ">>)
    /\ Completed("get_page") =>
           \/ call.value = NotFound(call.url)
           \/ StartsWith(call.value, <<"#", " ">>)

\* C5 (amended): every tool call returns normally, whatever the embedding
\* call and the store call do.  The search and get-page tools return a
\* formatted result or their sentinel when the store call succeeds, and the
\* error text "Error retrieving ...: <e>" exactly when it fails;
\* list_conferences returns a list of URLs, empty when the store call fails.
C5_NeverRaises ==
    /\ call # Idle => ~call.raised
    /\ Completed("retrieve") =>
           IF call.storeOK
           THEN \/ call.value = NoResultsText
                \/ StartsWith(call.value, <<"\n", "#", " ">>)
           ELSE IsErrorText(call.value, ErrDocPrefix)
    /\ Completed("get_page") =>
           IF call.storeOK
           THEN \/ call.value = NotFound(call.url)
                \/ StartsWith(call.value, <<"#", " ">>)
           ELSE IsErrorText(call.value, ErrPagePrefix)
    /\ Completed("list") =>
           /\ \A i \in 1..Len(call.value) : call.value[i] \in PageURLs
           /\ ~call.storeOK => call.value = <<>>

\* The store call of a get-page call failed while the page is stored.
C5_Witness ==
    /\ Completed("get_page")
    /\ ~call.storeOK
    /\ HasChunk(store, call.url)
    /\ IsErrorText(call.value, ErrPagePrefix)

\* C6 as stated: the search tool returns its sentinel exactly when the
\* search returns no rows, and get_page_content(url) returns the "not
\* found" sentinel exactly when the store holds no chunk of url in the
\* dataset; the sentinel is not the empty string.
C6_SentinelIffNoChunk ==
    /\ (Completed("retrieve") /\ call.storeOK) =>
           (call.value = NoResultsText <=> call.nrows = 0)
    /\ Completed("get_page") =>
           /\ call.value = NotFound(call.url) <=> ~HasChunk(store, call.url)
           /\ NotFound(call.url) # <<>>

\* C6 (amended): as C6, with "and the store query succeeds" added: when the
\* query fails the error text is returned, also for a url with no chunk.
\* The sentinel is never returned for a url that has a stored chunk.
C6_SentinelIffQueryEmpty ==
    /\ Completed("retrieve") =>
           /\ call.value = NoResultsText
                  <=> (call.storeOK /\ call.nrows = 0)
           /\ NoResultsText # <<>>
    /\ Completed("get_page") =>
           /\ call.value = NotFound(call.url)
                  <=> (call.storeOK /\ ~HasChunk(store, call.url))
           /\ NotFound(call.url) # <<>>

\* get_page_content answers "not found" for a url whose only chunks belong
\* to another dataset.
C6_Witness ==
    /\ Completed("get_page")
    /\ call.storeOK
    /\ \E i \in 1..Len(store) : store[i].url = call.url
    /\ ~HasChunk(store, call.url)
    /\ call.value = NotFound(call.url)

\* The chunks of url u in the dataset, as a set.
PageRows(st, u) ==
    {st[i] : i \in {j \in 1..Len(st) :
                       st[j].url = u /\ st[j].source = DATASET}}

ChunkAt(st, u, k) == CHOOSE r \in PageRows(st, u) : r.chunk_number = k

MinOf(S) == CHOOSE k \in S : \A j \in S : k <= j

\* The text of t before its first " - ", or t when it has none.
TitleBefore(t) ==
    LET hits == {i \in 1..Len(t) - 2 : SubSeq(t, i, i + 2) = <<" ", "-", " ">>}
    IN  IF hits = {} THEN t ELSE SubSeq(t, 1, MinOf(hits) - 1)

RECURSIVE ContentsAscending(_, _, _)
\* The contents of the chunks numbered ks, lowest number first, each after
\* a blank line.
ContentsAscending(st, u, ks) ==
    IF ks = {} THEN <<>>
    ELSE <<"\n", "\n">> \o ChunkAt(st, u, MinOf(ks)).content
         \o ContentsAscending(st, u, ks \ {MinOf(ks)})

ExpectedPage(st, u) ==
    LET ks == {r.chunk_number : r \in PageRows(st, u)}
    IN  <<"#", " ">> \o TitleBefore(ChunkAt(st, u, MinOf(ks)).title)
        \o <<"\n">> \o ContentsAscending(st, u, ks)

\* C7 as stated: for a url with a stored chunk, get_page_content returns the
\* title of the lowest-numbered chunk (up to its first " - ") followed by
\* every chunk's content once, in ascending chunk_number, whatever the order
\* of the writes.
C7_PageInChunkOrder ==
    (Completed("get_page") /\ HasChunk(store, call.url)) =>
        call.value = ExpectedPage(store, call.url)

\* C7 (amended): as C7, provided the store query succeeds (when it fails
\* the error text is returned instead).
C7_PageInChunkOrderWhenQueried ==
    (Completed("get_page") /\ HasChunk(store, call.url)) =>
        IF call.storeOK
        THEN call.value = ExpectedPage(store, call.url)
        ELSE IsErrorText(call.value, ErrPagePrefix)

\* A page whose chunk 1 was written before its chunk 0, the two with
\* different titles, has been read back.
C7_Witness ==
    /\ Completed("get_page")
    /\ call.storeOK
    /\ \E i, j \in 1..Len(store) :
           /\ i < j
           /\ store[i].url = call.url /\ store[j].url = call.url
           /\ store[i].source = DATASET /\ store[j].source = DATASET
           /\ store[i].chunk_number > store[j].chunk_number
           /\ store[i].title # store[j].title
    /\ call.value = ExpectedPage(store, call.url)

\* C8 as stated: list_conferences returns each URL that has a chunk in the
\* dataset exactly once, in ascending order, and no other URL.
C8_ListDistinctSorted ==
    Completed("list") =>
        /\ Range(call.value) = {u \in PageURLs : HasChunk(store, u)}
        /\ \A i, j \in 1..Len(call.value) :
               i < j => StrLess(call.value[i], call.value[j])

\* C8 (amended): as C8, provided the store query succeeds (when it fails the
\* list is empty).
C8_ListDistinctSortedWhenQueried ==
    Completed("list") =>
        IF call.storeOK
        THEN /\ Range(call.value) = {u \in PageURLs : HasChunk(store, u)}
             /\ \A i, j \in 1..Len(call.value) :
                    i < j => StrLess(call.value[i], call.value[j])
        ELSE call.value = <<>>

\* A URL is listed once while two chunks of the dataset share it.
C8_Witness ==
    /\ Completed("list")
    /\ call.storeOK
    /\ Len(call.value) = 1
    /\ \E i, j \in 1..Len(store) :
           /\ i # j
           /\ store[i].url = store[j].url
           /\ store[i].source = DATASET /\ store[j].source = DATASET

\* C9: get_embedding never raises: the search is always performed, with the
\* service's vector when the embeddings call succeeded and with a vector of
\* 1536 zeros when it failed, and a failed embedding does not turn the
\* result of the search tool into an error.
C9_EmbeddingFallback ==
    Completed("retrieve") =>
        /\ call.searched
        /\ call.embOK => call.query_embedding = ServiceVector(call.svc)
        /\ ~call.embOK =>
               /\ Len(call.query_embedding) = EmbeddingDim
               /\ \A i \in 1..Len(call.query_embedding) :
                      call.query_embedding[i] = 0
        /\ call.storeOK => ~IsErrorText(call.value, ErrDocPrefix)

\* The embeddings call failed and the search still returned formatted rows.
C9_Witness ==
    /\ Completed("retrieve")
    /\ ~call.embOK
    /\ call.storeOK
    /\ call.searched
    /\ HasDatasetRow(store)
    /\ StartsWith(call.value, <<"\n", "#", " ">>)

====
